---------------------------- MODULE Spec2Model ----------------------------
(***************************************************************************)
(* A model of the React examples of the repository.  Every example is a    *)
(* function component; its state is the state of its hooks as React keeps  *)
(* it: the committed value of each useState, the queue of updates that     *)
(* setState calls have appended and that the next render reduces, the      *)
(* dependencies of the last effect run, and the effects that a commit has  *)
(* scheduled and that have not run yet.  A handler or an effect reads the  *)
(* variables of the render that created it (its closure), which is the     *)
(* committed value here, never the queue.                                  *)
(*                                                                         *)
(* The examples do not interact, so each has its own variables, its own    *)
(* next-state relation and its own specification over the common Init.     *)
(***************************************************************************)
EXTENDS Integers, Sequences, FiniteSets, TLC

VARIABLES
    \* infiniteLoop (src/unnamed/part_000:5-14)
    loopMounted, loopCount, loopQueue, loopDeps, loopEffectPending,
    loopEffectRuns, loopLogged,
    \* Parent and MemoizedChild (src/week_01/memo/src/components/MemoizedChild.jsx)
    memoMounted, memoCount, memoName, memoCountQueue, memoNameQueue,
    memoClicks, parentRenders, childRenders, childProps,
    \* ThemeProvider, its consumers and ThemeButton (src/week_01/prop)
    themeMounted, theme, themeQueue, themeClicks, themePhase, wipTheme,
    dirty, wipClass, className,
    \* ControlledComponent and UncontrolledComponent
    \* (src/week_01/controlled_uncontrolled_comp)
    formMounted, value, ctrlInput, ctrlAlert, inputRef, unctrlAlert,
    \* RaceConditionComponent and CorrectedRaceConditionComponent
    \* (src/unnamed/part_000:63-88 and 449-490)
    fetchMounted, userId, user, loading, stateQueue, effectPending,
    fetches, microtasks, completed, changes,
    \* staleClosureComponent (src/unnamed/part_000:17-40)
    staleStatus, staleCount, staleQueue, staleClicks, staleEffectPending,
    staleDeps, intervals, intervalId, intervalsCreated, staleLogged, ticks,
    \* CorrectedStaleClosure (src/unnamed/part_000:310-337)
    csStatus, csCount, csQueue, csUpdates, csPending, csDeps, csLogIntervals,
    csLogIntervalId, csIncInterval, csCreated, csLastLog,
    \* NoCleanupComponent / ProperCleanupComponent (src/unnamed/part_000:44-59, 356-393)
    rsStatus, rsWidth, rsQueue, rsGen, innerWidth, listeners, rsCreated,
    rsMounts, resizes, staleCalls,
    \* StrictModeComponent (src/unnamed/part_000:94-103)
    smStatus, strictMode, smLog, smMounts, smRenders,
    \* App of the README of week_01/memo (README.md:55-108)
    appMounted, parentCount, otherState, parentCountQueue, otherStateQueue,
    appClicks, appRenders, nonMemoRenders, constMemoRenders, dynMemoRenders,
    constMemoProps, dynMemoProps,
    \* ParentComponent and MyButton of the same README (README.md:131-158)
    pcMounted, pcCount, pcQueue, pcClicks, pcRerenders, pcRenders, memoDeps,
    memoValue, problemProps, solutionProps, problemRenders, solutionRenders,
    \* SiblingComponentA/B/C and ThemeButton with no ThemeProvider above them
    npMounted, npPhase, npDirty, npTheme, npWipClass, npClassName, npOnClick,
    npCalled, npClicks, npRerenders

loopVars == <<loopMounted, loopCount, loopQueue, loopDeps, loopEffectPending,
              loopEffectRuns, loopLogged>>
memoVars == <<memoMounted, memoCount, memoName, memoCountQueue, memoNameQueue,
              memoClicks, parentRenders, childRenders, childProps>>
themeVars == <<themeMounted, theme, themeQueue, themeClicks, themePhase,
               wipTheme, dirty, wipClass, className>>
formVars == <<formMounted, value, ctrlInput, ctrlAlert, inputRef, unctrlAlert>>
fetchVars == <<fetchMounted, userId, user, loading, stateQueue, effectPending,
               fetches, microtasks, completed, changes>>
staleVars == <<staleStatus, staleCount, staleQueue, staleClicks,
               staleEffectPending, staleDeps, intervals, intervalId,
               intervalsCreated, staleLogged, ticks>>
corrVars == <<csStatus, csCount, csQueue, csUpdates, csPending, csDeps,
              csLogIntervals, csLogIntervalId, csIncInterval, csCreated,
              csLastLog>>
resizeVars == <<rsStatus, rsWidth, rsQueue, rsGen, innerWidth, listeners,
                rsCreated, rsMounts, resizes, staleCalls>>
strictVars == <<smStatus, strictMode, smLog, smMounts, smRenders>>
appVars == <<appMounted, parentCount, otherState, parentCountQueue,
             otherStateQueue, appClicks, appRenders, nonMemoRenders,
             constMemoRenders, dynMemoRenders, constMemoProps, dynMemoProps>>
pcVars == <<pcMounted, pcCount, pcQueue, pcClicks, pcRerenders, pcRenders, memoDeps,
    memoValue, problemProps, solutionProps, problemRenders, solutionRenders>>
npVars == <<npMounted, npPhase, npDirty, npTheme, npWipClass, npClassName, npOnClick,
    npCalled, npClicks, npRerenders>>
vars == <<loopVars, memoVars, themeVars, formVars, fetchVars,
    staleVars, corrVars, resizeVars, strictVars, appVars, pcVars,
    npVars>>

\* What the actions of one example leave unchanged: the other examples.
notLoop == <<memoVars, themeVars, formVars, fetchVars, staleVars,
    corrVars, resizeVars, strictVars, appVars, pcVars, npVars>>
notMemo == <<loopVars, themeVars, formVars, fetchVars, staleVars,
    corrVars, resizeVars, strictVars, appVars, pcVars, npVars>>
notTheme == <<loopVars, memoVars, formVars, fetchVars, staleVars, corrVars,
    resizeVars, strictVars, appVars, pcVars, npVars>>
notForm == <<loopVars, memoVars, themeVars, fetchVars, staleVars,
    corrVars, resizeVars, strictVars, appVars, pcVars, npVars>>
notFetch == <<loopVars, memoVars, themeVars, formVars, staleVars, corrVars,
    resizeVars, strictVars, appVars, pcVars, npVars>>
notStale == <<loopVars, memoVars, themeVars, formVars, fetchVars, corrVars,
    resizeVars, strictVars, appVars, pcVars, npVars>>
notCorr == <<loopVars, memoVars, themeVars, formVars, fetchVars,
    staleVars, resizeVars, strictVars, appVars, pcVars, npVars>>
notResize == <<loopVars, memoVars, themeVars, formVars, fetchVars,
    staleVars, corrVars, strictVars, appVars, pcVars, npVars>>
notStrict == <<loopVars, memoVars, themeVars, formVars, fetchVars,
    staleVars, corrVars, resizeVars, appVars, pcVars, npVars>>
notApp == <<loopVars, memoVars, themeVars, formVars, fetchVars,
    staleVars, corrVars, resizeVars, strictVars, pcVars, npVars>>
notPc == <<loopVars, memoVars, themeVars, formVars, fetchVars,
    staleVars, corrVars, resizeVars, strictVars, appVars, npVars>>
notNp == <<loopVars, memoVars, themeVars, formVars, fetchVars,
    staleVars, corrVars, resizeVars, strictVars, appVars, pcVars>>

\* "no value": the props of a child before its first render.
None == "none"

(***************************************************************************)
(* useState.  A setState call with a plain value appends the value to the  *)
(* hook's queue; a render reduces the queue in order, so the last value    *)
(* wins.                                                                   *)
(***************************************************************************)
ReduceValues(state, queue) ==
    IF queue = <<>> THEN state ELSE queue[Len(queue)]

(***************************************************************************)
(* infiniteLoop                                                            *)
(***************************************************************************)
MaxLoopCount == 60

\* useState(0)
LoopInitialCount == 0

\* The effect body sets count to the same value: the loop's bug removed.
LoopEffectKeepsCount(count) == count
\* setCount(count + 1): the value the effect writes, count read from the
\* closure of the render that scheduled the effect.
LoopEffectUpdate(count) == count + 1

\* The first render: useState(0), the commit schedules the effect.
LoopMount ==
    /\ ~loopMounted
    /\ loopMounted' = TRUE
    /\ loopCount' = LoopInitialCount
    /\ loopEffectPending' = TRUE
    /\ UNCHANGED <<loopQueue, loopDeps, loopEffectRuns, loopLogged>>
    /\ UNCHANGED notLoop

\* The effect of lines 8-11 runs after the commit that scheduled it.
\* loopDeps is the dependency array of the last run (<<>> before the
\* first), loopLogged the last line it logged.
LoopRunEffect ==
    /\ loopMounted
    /\ loopEffectPending
    /\ loopCount < MaxLoopCount
    /\ loopQueue' = Append(loopQueue, LoopEffectUpdate(loopCount))
    /\ loopLogged' = <<loopCount>>
    /\ loopDeps' = <<loopCount>>
    /\ loopEffectRuns' = loopEffectRuns + 1
    /\ loopEffectPending' = FALSE
    /\ UNCHANGED <<loopMounted, loopCount>>
    /\ UNCHANGED notLoop

\* A render reduces the queue; an unchanged state bails out without a
\* commit; a commit schedules the effect when [count] differs from the
\* dependencies of its last run.
LoopRender ==
    /\ loopMounted
    /\ ~loopEffectPending
    /\ loopQueue # <<>>
    /\ LET new == ReduceValues(loopCount, loopQueue)
       IN /\ loopCount' = new
          /\ loopEffectPending' = (new # loopCount /\ <<new>> # loopDeps)
    /\ loopQueue' = <<>>
    /\ UNCHANGED <<loopMounted, loopDeps, loopEffectRuns, loopLogged>>
    /\ UNCHANGED notLoop

LoopNext == LoopMount \/ LoopRunEffect \/ LoopRender

(***************************************************************************)
(* Parent and MemoizedChild                                                *)
(***************************************************************************)
MaxClicks == 4

\* memo() with a comparison that always answers "equal".
AlwaysEqual(prev, next) == TRUE
\* memo() never finds the props equal: the child exported without memo.
NeverEqual(prev, next) == FALSE
\* memo(MemoizedChild): the shallow comparison of the previous and the next
\* props, whose only field is name.
ShallowEqual(prev, next) == prev.name = next.name

\* The first render of Parent renders the child.
MemoMount ==
    /\ ~memoMounted
    /\ memoMounted' = TRUE
    /\ memoCount' = 0
    /\ memoName' = "Sumit"
    /\ parentRenders' = 1
    /\ childRenders' = 1
    /\ childProps' = [name |-> "Sumit"]
    /\ UNCHANGED <<memoCountQueue, memoNameQueue, memoClicks>>
    /\ UNCHANGED notMemo

\* onClick={() => setCount(count + 1)}
ClickCount ==
    /\ memoMounted
    /\ memoClicks < MaxClicks
    /\ memoClicks' = memoClicks + 1
    /\ memoCountQueue' = Append(memoCountQueue, memoCount + 1)
    /\ UNCHANGED <<memoMounted, memoCount, memoName, memoNameQueue,
                   parentRenders, childRenders, childProps>>
    /\ UNCHANGED notMemo

\* onClick={() => setName("Satyam")}
ClickName ==
    /\ memoMounted
    /\ memoClicks < MaxClicks
    /\ memoClicks' = memoClicks + 1
    /\ memoNameQueue' = Append(memoNameQueue, "Satyam")
    /\ UNCHANGED <<memoMounted, memoCount, memoName, memoCountQueue,
                   parentRenders, childRenders, childProps>>
    /\ UNCHANGED notMemo

\* Parent renders with the reduced state.  With no state changed React
\* bails out: it may or may not have called Parent's body, and it renders
\* no child.  Otherwise Parent's body runs and the memoized child's body
\* runs unless its props are shallowly equal to those of its last render.
ParentRender ==
    /\ memoMounted
    /\ memoCountQueue # <<>> \/ memoNameQueue # <<>>
    /\ LET newCount == ReduceValues(memoCount, memoCountQueue)
           newName == ReduceValues(memoName, memoNameQueue)
           newProps == [name |-> newName]
       IN /\ memoCount' = newCount
          /\ memoName' = newName
          /\ IF newCount = memoCount /\ newName = memoName
             THEN /\ \E ran \in BOOLEAN :
                        parentRenders' = parentRenders + (IF ran THEN 1 ELSE 0)
                  /\ UNCHANGED <<childRenders, childProps>>
             ELSE /\ parentRenders' = parentRenders + 1
                  /\ IF ShallowEqual(childProps, newProps)
                     THEN UNCHANGED <<childRenders, childProps>>
                     ELSE /\ childRenders' = childRenders + 1
                          /\ childProps' = newProps
    /\ memoCountQueue' = <<>>
    /\ memoNameQueue' = <<>>
    /\ UNCHANGED <<memoMounted, memoClicks>>
    /\ UNCHANGED notMemo

MemoNext == MemoMount \/ ClickCount \/ ClickName \/ ParentRender

(***************************************************************************)
(* ThemeProvider, SiblingComponentA/B/C and ThemeButton                    *)
(*                                                                         *)
(* A render of ThemeProvider reduces the queue of setTheme updates and     *)
(* gives the context a new value {theme, toggleTheme}.  Its children are   *)
(* the same elements as before (App does not render again), so a consumer  *)
(* renders again only because the context it reads has changed: React      *)
(* marks every component that called useContext(ThemeContext), each of     *)
(* them renders with the value of the provider above it, and the commit    *)
(* writes the results to the DOM together.                                 *)
(***************************************************************************)
MaxThemeClicks == 6

\* The siblings App.jsx puts inside <ThemeProvider>.
Siblings == {"A", "B", "C"}

\* A context created with the other theme as its default.
DefaultThemeDark == "dark"
\* createContext({ theme: "light" })
DefaultTheme == "light"

\* (prevTheme) => (prevTheme === "light" ? "dark" : "light")
ToggleUpdater(prevTheme) == IF prevTheme = "light" THEN "dark" ELSE "light"

\* A toggle computed from the theme of the handler's closure.
toggleThemeFromClosure == [kind |-> "value", v |-> ToggleUpdater(theme)]
\* toggleTheme: setTheme called with the updater function.
toggleTheme == [kind |-> "updater", v |-> None]

\* useState: the queue reduced in order; an updater receives the state
\* the updates before it have produced.
RECURSIVE ReduceUpdates(_, _)
ReduceUpdates(state, queue) ==
    IF queue = <<>> THEN state
    ELSE LET u == Head(queue)
         IN ReduceUpdates(IF u.kind = "updater" THEN ToggleUpdater(state)
                          ELSE u.v,
                          Tail(queue))

\* A sibling that reads the context's default value, as it would outside
\* of the provider.
useContextDefault(c) == IF c = "C" THEN DefaultTheme ELSE wipTheme
\* const { theme } = useContext(ThemeContext) in a sibling under the
\* provider: the value of the provider's render in progress.
useContext(c) == wipTheme

\* className={`${theme === "dark" ? "dark" : "light"}`}
SiblingClassName(t) == IF t = "dark" THEN "dark" ELSE "light"

\* The first render of App: the provider with useState("light") and the
\* three siblings, committed together.
ThemeMount ==
    /\ ~themeMounted
    /\ themeMounted' = TRUE
    /\ theme' = "light"
    /\ wipTheme' = "light"
    /\ className' = [c \in Siblings |-> SiblingClassName("light")]
    /\ wipClass' = [c \in Siblings |-> SiblingClassName("light")]
    /\ UNCHANGED <<themeQueue, themeClicks, themePhase, dirty>>
    /\ UNCHANGED notTheme

\* <button onClick={toggleTheme}>
ClickThemeButton ==
    /\ themeMounted
    /\ themeClicks < MaxThemeClicks
    /\ themeClicks' = themeClicks + 1
    /\ themeQueue' = Append(themeQueue, toggleTheme)
    /\ UNCHANGED <<themeMounted, theme, themePhase, wipTheme, dirty,
                   wipClass, className>>
    /\ UNCHANGED notTheme

\* ThemeProvider renders: an unchanged theme bails out, a changed one
\* changes the context value and marks the consumers.
RenderProvider ==
    /\ themeMounted
    /\ themePhase = "idle"
    /\ themeQueue # <<>>
    /\ LET new == ReduceUpdates(theme, themeQueue)
       IN IF new = theme
          THEN UNCHANGED <<themePhase, wipTheme, dirty>>
          ELSE /\ themePhase' = "rendering"
               /\ wipTheme' = new
               /\ dirty' = Siblings
    /\ themeQueue' = <<>>
    /\ UNCHANGED <<themeMounted, theme, themeClicks, wipClass, className>>
    /\ UNCHANGED notTheme

\* SiblingComponentA/B/C renders with the theme it reads from the context.
RenderSibling(c) ==
    /\ themePhase = "rendering"
    /\ c \in dirty
    /\ wipClass' = [wipClass EXCEPT ![c] = SiblingClassName(useContext(c))]
    /\ dirty' = dirty \ {c}
    /\ UNCHANGED <<themeMounted, theme, themeQueue, themeClicks, themePhase,
                   wipTheme, className>>
    /\ UNCHANGED notTheme

\* The commit: the provider's state and the siblings' output together.
ThemeCommit ==
    /\ themePhase = "rendering"
    /\ dirty = {}
    /\ theme' = wipTheme
    /\ className' = wipClass
    /\ themePhase' = "idle"
    /\ UNCHANGED <<themeMounted, themeQueue, themeClicks, wipTheme, dirty,
                   wipClass>>
    /\ UNCHANGED notTheme

ThemeNext ==
    \/ ThemeMount
    \/ ClickThemeButton
    \/ RenderProvider
    \/ \E c \in Siblings : RenderSibling(c)
    \/ ThemeCommit

\* No render is scheduled or in progress.
ThemeSettled == themeMounted /\ themePhase = "idle" /\ themeQueue = <<>>

(***************************************************************************)
(* ControlledComponent and UncontrolledComponent                           *)
(*                                                                         *)
(* The two forms are run side by side on the same keystrokes.  A text is   *)
(* a sequence of characters.  ctrlInput and inputRef are the texts the     *)
(* two <input> elements hold in the DOM (inputRef.current.value); value    *)
(* is the state of ControlledComponent.  A keystroke and a submit are      *)
(* discrete events: React renders the updates of their handlers before     *)
(* the browser dispatches the next event, so the render is part of the     *)
(* event's action, and a controlled input's commit writes its value prop   *)
(* back to the DOM.                                                        *)
(***************************************************************************)
MaxTextLen == 3

Keys == {"a", "b"}

\* "A name was submitted" + text
Message(text) == <<"A name was submitted">> \o text

\* A handler that writes the value of its closure back: the typed text is
\* lost.
handleChangeKeepsValue(targetValue) == <<value>>
\* handleChange: setValue(e.target.value); the updates the handler queues.
handleChange(targetValue) == <<targetValue>>

\* What the browser makes of the input's text on a keystroke.
Edited(text, key) ==
    IF key = "Backspace" THEN SubSeq(text, 1, Len(text) - 1)
    ELSE Append(text, key)

\* The first render: useState(""), both inputs empty.
FormMount ==
    /\ ~formMounted
    /\ formMounted' = TRUE
    /\ value' = <<>>
    /\ ctrlInput' = <<>>
    /\ inputRef' = <<>>
    /\ UNCHANGED <<ctrlAlert, unctrlAlert>>
    /\ UNCHANGED notForm

\* A keystroke in both inputs.  Controlled: the browser edits the text,
\* onChange queues the update, the render reduces it and the commit sets
\* the input to value.  Uncontrolled: the browser edits the text.
Type(key) ==
    /\ formMounted
    /\ key = "Backspace" => ctrlInput # <<>> /\ inputRef # <<>>
    /\ key # "Backspace" => Len(ctrlInput) < MaxTextLen /\ Len(inputRef) < MaxTextLen
    /\ LET new == ReduceValues(value, handleChange(Edited(ctrlInput, key)))
       IN /\ value' = new
          /\ ctrlInput' = new
    /\ inputRef' = Edited(inputRef, key)
    /\ UNCHANGED <<formMounted, ctrlAlert, unctrlAlert>>
    /\ UNCHANGED notForm

\* Submit in both forms: handleSubmit of ControlledComponent reads value
\* from its closure, that of UncontrolledComponent reads the DOM.
Submit ==
    /\ formMounted
    /\ ctrlAlert' = <<Message(value)>>
    /\ unctrlAlert' = <<Message(inputRef)>>
    /\ UNCHANGED <<formMounted, value, ctrlInput, inputRef>>
    /\ UNCHANGED notForm

FormNext ==
    \/ FormMount
    \/ \E key \in Keys \cup {"Backspace"} : Type(key)
    \/ Submit

(***************************************************************************)
(* RaceConditionComponent and CorrectedRaceConditionComponent              *)
(*                                                                         *)
(* The two components have the same props and state, so they share the     *)
(* variables and each has its own actions and specification.               *)
(*   userId        the prop of the committed render                        *)
(*   user, loading the committed state; user is <<>> for null and <<i>>    *)
(*                 for the data of user i                                  *)
(*   stateQueue    the setUser and setLoading calls not rendered yet       *)
(*   effectPending the commit changed [userId] and the effect has not run  *)
(*   fetches       one record per fetch started, in the order of the       *)
(*                 effect runs: the id fetched, how far the promise chain  *)
(*                 is, what its handler logged, whether it called setUser  *)
(*   microtasks    fetches aborted whose rejection has not been handled    *)
(*   completed     the fetches in the order their handlers ran             *)
(* React runs a pending effect before it renders again, and the browser    *)
(* runs the queued microtasks before any other task.                       *)
(***************************************************************************)
MaxChanges == 3

UserIds == {1, 2}

\* The value of a state variable after the queued updates.
ReduceVar(var, state, queue) ==
    LET at == {i \in 1..Len(queue) : queue[i].var = var}
    IN IF at = {} THEN state
       ELSE queue[CHOOSE i \in at : \A j \in at : j <= i].v

LatestUser == ReduceVar("user", user, stateQueue)
LatestLoading == ReduceVar("loading", loading, stateQueue)

\* setLoading(true); setUser(null) at the start of the effect
EffectStartUpdates ==
    <<[var |-> "loading", v |-> TRUE], [var |-> "user", v |-> <<>>]>>

\* fetch(`/api/users/${userId}`) for the userId of the effect's closure
NewFetch(id) ==
    [id |-> id, status |-> "fetching", logged |-> "none", calledSetUser |-> FALSE]

InFlight(r) == fetches[r].status \in {"fetching", "reading"}

\* A render of the component with the prop id: the queue is reduced and
\* the commit schedules the effect when [userId] has changed.
RenderWith(id) ==
    /\ user' = LatestUser
    /\ loading' = LatestLoading
    /\ stateQueue' = <<>>
    /\ userId' = id
    /\ effectPending' = (id # userId)

\* The first render: useState(null), useState(true), the effect scheduled.
FetchMount(id) ==
    /\ ~fetchMounted
    /\ fetchMounted' = TRUE
    /\ userId' = id
    /\ user' = <<>>
    /\ loading' = TRUE
    /\ effectPending' = TRUE
    /\ UNCHANGED <<stateQueue, fetches, microtasks, completed, changes>>
    /\ UNCHANGED notFetch

\* The parent renders the component with another userId.
ChangeUserId(id) ==
    /\ fetchMounted
    /\ ~effectPending
    /\ microtasks = <<>>
    /\ id # userId
    /\ changes < MaxChanges
    /\ changes' = changes + 1
    /\ RenderWith(id)
    /\ UNCHANGED <<fetchMounted, fetches, microtasks, completed>>
    /\ UNCHANGED notFetch

\* The component renders again because of its own state updates.
FetchRender ==
    /\ fetchMounted
    /\ ~effectPending
    /\ microtasks = <<>>
    /\ stateQueue # <<>>
    /\ RenderWith(userId)
    /\ UNCHANGED <<fetchMounted, fetches, microtasks, completed, changes>>
    /\ UNCHANGED notFetch

\* res.json(): the response has arrived and its body is being read.
Responds(r) ==
    /\ microtasks = <<>>
    /\ fetches[r].status = "fetching"
    /\ fetches' = [fetches EXCEPT ![r].status = "reading"]
    /\ UNCHANGED <<fetchMounted, userId, user, loading, stateQueue,
                   effectPending, microtasks, completed, changes>>
    /\ UNCHANGED notFetch

(* RaceConditionComponent *)

\* A .then that drops the data of a fetch for another userId than the
\* current one.
RaceThenIgnoresStale(r) ==
    IF fetches[r].id = userId
    THEN <<[var |-> "user", v |-> <<fetches[r].id>>],
           [var |-> "loading", v |-> FALSE]>>
    ELSE <<>>
\* .then((data) => { setUser(data); setLoading(false); })
RaceThenUpdates(r) ==
    <<[var |-> "user", v |-> <<fetches[r].id>>],
      [var |-> "loading", v |-> FALSE]>>

\* The effect of lines 67-82: it returns no cleanup.
RaceRunEffect ==
    /\ fetchMounted
    /\ effectPending
    /\ stateQueue' = stateQueue \o EffectStartUpdates
    /\ fetches' = Append(fetches, NewFetch(userId))
    /\ effectPending' = FALSE
    /\ UNCHANGED <<fetchMounted, userId, user, loading, microtasks,
                   completed, changes>>
    /\ UNCHANGED notFetch

\* The body has been parsed: the second .then runs.
RaceResolve(r) ==
    /\ fetches[r].status = "reading"
    /\ stateQueue' = stateQueue \o RaceThenUpdates(r)
    /\ fetches' = [fetches EXCEPT ![r].status = "resolved",
                                  ![r].calledSetUser = TRUE]
    /\ completed' = Append(completed, r)
    /\ UNCHANGED <<fetchMounted, userId, user, loading, effectPending,
                   microtasks, changes>>
    /\ UNCHANGED notFetch

\* fetch or res.json() rejects: .catch logs and calls setLoading(false).
RaceReject(r) ==
    /\ InFlight(r)
    /\ stateQueue' = Append(stateQueue, [var |-> "loading", v |-> FALSE])
    /\ fetches' = [fetches EXCEPT ![r].status = "rejected",
                                  ![r].logged = "error"]
    /\ completed' = Append(completed, r)
    /\ UNCHANGED <<fetchMounted, userId, user, loading, effectPending,
                   microtasks, changes>>
    /\ UNCHANGED notFetch

RaceNext ==
    \/ \E id \in UserIds : FetchMount(id)
    \/ \E id \in UserIds : ChangeUserId(id)
    \/ FetchRender
    \/ RaceRunEffect
    \/ \E r \in 1..Len(fetches) : Responds(r)
    \/ \E r \in 1..Len(fetches) : RaceResolve(r)
    \/ \E r \in 1..Len(fetches) : RaceReject(r)

\* Nothing is scheduled and no fetch is in flight.
FetchSettled ==
    /\ fetchMounted
    /\ ~effectPending
    /\ stateQueue = <<>>
    /\ microtasks = <<>>
    /\ \A r \in 1..Len(fetches) : ~InFlight(r)

(* CorrectedRaceConditionComponent *)

\* A catch that treats every rejection as a failure.
CatchLogsError(errorName) == "error"
\* catch (error): if (error.name === "AbortError") ... else ...
CatchLog(errorName) == IF errorName = "AbortError" THEN "aborted" ELSE "error"

\* A cleanup that aborts nothing.
CleanupAbortsNothing == {}
\* return () => { abortController.abort(); }: the cleanup of the last
\* effect run aborts its fetch, which rejects if it is still in flight.
CleanupAborts ==
    IF fetches # <<>> /\ InFlight(Len(fetches)) THEN {Len(fetches)} ELSE {}

\* The effect of lines 453-484 after a commit that changed [userId]: the
\* cleanup of the previous run, then the body.
FixedRunEffect ==
    /\ fetchMounted
    /\ effectPending
    /\ microtasks = <<>>
    /\ LET aborted == CleanupAborts
       IN /\ fetches' = Append([r \in 1..Len(fetches) |->
                                  IF r \in aborted
                                  THEN [fetches[r] EXCEPT !.status = "aborting"]
                                  ELSE fetches[r]],
                               NewFetch(userId))
          /\ microtasks' = IF aborted = {} THEN microtasks
                           ELSE Append(microtasks, Len(fetches))
    /\ stateQueue' = stateQueue \o EffectStartUpdates
    /\ effectPending' = FALSE
    /\ UNCHANGED <<fetchMounted, userId, user, loading, completed, changes>>
    /\ UNCHANGED notFetch

\* The awaits of an aborted fetch reject with AbortError: catch, finally.
FixedAbortHandled ==
    /\ microtasks # <<>>
    /\ LET r == Head(microtasks)
       IN /\ fetches' = [fetches EXCEPT ![r].status = "aborted",
                                        ![r].logged = CatchLog("AbortError")]
          /\ completed' = Append(completed, r)
    /\ microtasks' = Tail(microtasks)
    /\ stateQueue' = Append(stateQueue, [var |-> "loading", v |-> FALSE])
    /\ UNCHANGED <<fetchMounted, userId, user, loading, effectPending, changes>>
    /\ UNCHANGED notFetch

\* await res.json() gives the data: setUser(data), then finally.
FixedResolve(r) ==
    /\ microtasks = <<>>
    /\ fetches[r].status = "reading"
    /\ stateQueue' = stateQueue \o <<[var |-> "user", v |-> <<fetches[r].id>>],
                                     [var |-> "loading", v |-> FALSE]>>
    /\ fetches' = [fetches EXCEPT ![r].status = "resolved",
                                  ![r].calledSetUser = TRUE]
    /\ completed' = Append(completed, r)
    /\ UNCHANGED <<fetchMounted, userId, user, loading, effectPending,
                   microtasks, changes>>
    /\ UNCHANGED notFetch

\* fetch or res.json() rejects with another error: catch, then finally.
FixedReject(r) ==
    /\ microtasks = <<>>
    /\ InFlight(r)
    /\ stateQueue' = Append(stateQueue, [var |-> "loading", v |-> FALSE])
    /\ fetches' = [fetches EXCEPT ![r].status = "rejected",
                                  ![r].logged = CatchLog("TypeError")]
    /\ completed' = Append(completed, r)
    /\ UNCHANGED <<fetchMounted, userId, user, loading, effectPending,
                   microtasks, changes>>
    /\ UNCHANGED notFetch

FixedNext ==
    \/ \E id \in UserIds : FetchMount(id)
    \/ \E id \in UserIds : ChangeUserId(id)
    \/ FetchRender
    \/ FixedRunEffect
    \/ FixedAbortHandled
    \/ \E r \in 1..Len(fetches) : Responds(r)
    \/ \E r \in 1..Len(fetches) : FixedResolve(r)
    \/ \E r \in 1..Len(fetches) : FixedReject(r)

(***************************************************************************)
(* staleClosureComponent                                                   *)
(*                                                                         *)
(*   intervals         the timers of the window that are set: the id and   *)
(*                     the count of the closure of each one's callback     *)
(*   intervalId        the id in the closure of the last effect run        *)
(*   staleDeps         the dependency array of the last effect run, in a   *)
(*                     one-element sequence (<<>> before the first run)    *)
(*   staleLogged       the values the interval callbacks have logged       *)
(***************************************************************************)
MaxStaleClicks == 4
MaxTicks == 3

\* }, []): the dependency array of the effect, empty for every render.
StaleDepsArray(count) == <<>>

\* A callback that reads the count of the current render.
IntervalLogsCurrent(captured) == staleCount
\* console.log("Count is", count): count is the one of the closure.
IntervalLogs(captured) == captured

\* The first render: useState(0), the effect scheduled.
StaleMount ==
    /\ staleStatus = "unmounted"
    /\ staleStatus' = "mounted"
    /\ staleCount' = 0
    /\ staleEffectPending' = TRUE
    /\ UNCHANGED <<staleQueue, staleClicks, staleDeps, intervals, intervalId,
                   intervalsCreated, staleLogged, ticks>>
    /\ UNCHANGED notStale

\* The effect of lines 20-31: the cleanup of its previous run, if it had
\* one, then setInterval with a callback that closes over count.
StaleRunEffect ==
    /\ staleStatus = "mounted"
    /\ staleEffectPending
    /\ intervalsCreated' = intervalsCreated + 1
    /\ intervalId' = intervalsCreated + 1
    /\ intervals' = {i \in intervals : staleDeps = <<>> \/ i.id # intervalId}
                      \cup {[id |-> intervalsCreated + 1, count |-> staleCount]}
    /\ staleDeps' = <<StaleDepsArray(staleCount)>>
    /\ staleEffectPending' = FALSE
    /\ UNCHANGED <<staleStatus, staleCount, staleQueue, staleClicks,
                   staleLogged, ticks>>
    /\ UNCHANGED notStale

\* onClick={() => setCount(count + 1)}
StaleClick ==
    /\ staleStatus = "mounted"
    /\ staleClicks < MaxStaleClicks
    /\ staleClicks' = staleClicks + 1
    /\ staleQueue' = Append(staleQueue, staleCount + 1)
    /\ UNCHANGED <<staleStatus, staleCount, staleEffectPending, staleDeps,
                   intervals, intervalId, intervalsCreated, staleLogged, ticks>>
    /\ UNCHANGED notStale

\* A render after the clicks: the commit schedules the effect only when
\* its dependency array differs from the one of its last run.
StaleRender ==
    /\ staleStatus = "mounted"
    /\ ~staleEffectPending
    /\ staleQueue # <<>>
    /\ LET new == ReduceValues(staleCount, staleQueue)
       IN /\ staleCount' = new
          /\ staleEffectPending' = (<<StaleDepsArray(new)>> # staleDeps)
    /\ staleQueue' = <<>>
    /\ UNCHANGED <<staleStatus, staleClicks, staleDeps, intervals, intervalId,
                   intervalsCreated, staleLogged, ticks>>
    /\ UNCHANGED notStale

\* A second has passed: the callback of a set interval runs.
Tick(i) ==
    /\ i \in intervals
    /\ ticks < MaxTicks
    /\ ticks' = ticks + 1
    /\ staleLogged' = staleLogged \cup {IntervalLogs(i.count)}
    /\ UNCHANGED <<staleStatus, staleCount, staleQueue, staleClicks,
                   staleEffectPending, staleDeps, intervals, intervalId,
                   intervalsCreated>>
    /\ UNCHANGED notStale

\* The component unmounts: the cleanup of the effect's last run,
\* clearInterval(intervalId).
StaleUnmount ==
    /\ staleStatus = "mounted"
    /\ ~staleEffectPending
    /\ staleStatus' = "gone"
    /\ intervals' = {i \in intervals : i.id # intervalId}
    /\ staleQueue' = <<>>
    /\ UNCHANGED <<staleCount, staleClicks, staleEffectPending, staleDeps,
                   intervalId, intervalsCreated, staleLogged, ticks>>
    /\ UNCHANGED notStale

StaleNext ==
    \/ StaleMount
    \/ StaleRunEffect
    \/ StaleClick
    \/ StaleRender
    \/ \E i \in intervals : Tick(i)
    \/ StaleUnmount

(***************************************************************************)
(* CorrectedStaleClosure                                                   *)
(*                                                                         *)
(* The component has two effects: the first, with [count], sets an         *)
(* interval that logs count; the second, with [], sets an interval that    *)
(* increments count with an updater.                                       *)
(*   csQueue         the queued setCount calls: a value (the click) or an  *)
(*                   updater (the second interval)                         *)
(*   csPending       the effects the last commit scheduled: "log", "inc"   *)
(*   csDeps          the [count] of the first effect's last run, in a      *)
(*                   one-element sequence (<<>> before the first run)      *)
(*   csLogIntervals  the logging intervals that are set: the id and the    *)
(*                   count of the closure of each one's callback           *)
(*   csIncInterval   the incrementing interval is set                      *)
(*   csLastLog       the last value logged and the committed count at      *)
(*                   that moment (<<>> before the first log)               *)
(* An effect runs in a task of its own after the commit that scheduled it, *)
(* so a timer can fire between the two.                                    *)
(***************************************************************************)
MaxCsUpdates == 3

\* useState: values and updaters (prevCount) => prevCount + 1, in order.
RECURSIVE ReduceCounts(_, _)
ReduceCounts(state, queue) ==
    IF queue = <<>> THEN state
    ELSE LET u == Head(queue)
         IN ReduceCounts(IF u.kind = "updater" THEN state + 1 ELSE u.v,
                         Tail(queue))

\* The first render: useState(0), both effects scheduled.
CsMount ==
    /\ csStatus = "unmounted"
    /\ csStatus' = "mounted"
    /\ csCount' = 0
    /\ csPending' = {"log", "inc"}
    /\ UNCHANGED <<csQueue, csUpdates, csDeps, csLogIntervals, csLogIntervalId,
                   csIncInterval, csCreated, csLastLog>>
    /\ UNCHANGED notCorr

\* The scheduled effects run.  The first effect (lines 313-321): the
\* cleanup of its previous run, clearInterval(intervalId), then setInterval
\* with a callback that closes over the committed count.  The second
\* (lines 324-329) runs after the first commit only.
CsRunEffects ==
    /\ csStatus = "mounted"
    /\ csPending # {}
    /\ IF "log" \in csPending
       THEN /\ csCreated' = csCreated + 1
            /\ csLogIntervalId' = csCreated + 1
            /\ csLogIntervals' =
                 {i \in csLogIntervals : i.id # csLogIntervalId}
                   \cup {[id |-> csCreated + 1, count |-> csCount]}
            /\ csDeps' = <<csCount>>
       ELSE UNCHANGED <<csCreated, csLogIntervalId, csLogIntervals, csDeps>>
    /\ csIncInterval' = (csIncInterval \/ "inc" \in csPending)
    /\ csPending' = {}
    /\ UNCHANGED <<csStatus, csCount, csQueue, csUpdates, csLastLog>>
    /\ UNCHANGED notCorr

\* onClick={() => setCount(count + 1)}
CsClick ==
    /\ csStatus = "mounted"
    /\ csUpdates < MaxCsUpdates
    /\ csUpdates' = csUpdates + 1
    /\ csQueue' = Append(csQueue, [kind |-> "value", v |-> csCount + 1])
    /\ UNCHANGED <<csStatus, csCount, csPending, csDeps, csLogIntervals,
                   csLogIntervalId, csIncInterval, csCreated, csLastLog>>
    /\ UNCHANGED notCorr

\* The second interval fires: setCount((prevCount) => prevCount + 1)
CsIncTick ==
    /\ csIncInterval
    /\ csUpdates < MaxCsUpdates
    /\ csUpdates' = csUpdates + 1
    /\ csQueue' = Append(csQueue, [kind |-> "updater", v |-> 0])
    /\ UNCHANGED <<csStatus, csCount, csPending, csDeps, csLogIntervals,
                   csLogIntervalId, csIncInterval, csCreated, csLastLog>>
    /\ UNCHANGED notCorr

\* A logging interval fires: console.log(..., count) with the count of
\* the callback's closure.
CsLogTick(i) ==
    /\ i \in csLogIntervals
    /\ csLastLog' = <<i.count, csCount>>
    /\ UNCHANGED <<csStatus, csCount, csQueue, csUpdates, csPending, csDeps,
                   csLogIntervals, csLogIntervalId, csIncInterval, csCreated>>
    /\ UNCHANGED notCorr

\* A render: the queue is reduced and the commit schedules the first
\* effect when [count] differs from that of its last run.  A render that
\* holds the update of a click is synchronous and runs the effect at the
\* end of its commit; a render caused by the timer alone leaves the effect
\* to a later task.
CsRender ==
    /\ csStatus = "mounted"
    /\ csPending = {}
    /\ csQueue # <<>>
    /\ LET new == ReduceCounts(csCount, csQueue)
           sync == \E k \in 1..Len(csQueue) : csQueue[k].kind = "value"
       IN /\ csCount' = new
          /\ IF <<new>> # csDeps /\ sync
             THEN /\ csCreated' = csCreated + 1
                  /\ csLogIntervalId' = csCreated + 1
                  /\ csLogIntervals' =
                       {i \in csLogIntervals : i.id # csLogIntervalId}
                         \cup {[id |-> csCreated + 1, count |-> new]}
                  /\ csDeps' = <<new>>
                  /\ csPending' = {}
             ELSE /\ csPending' = IF <<new>> # csDeps THEN {"log"} ELSE {}
                  /\ UNCHANGED <<csCreated, csLogIntervalId, csLogIntervals,
                                 csDeps>>
    /\ csQueue' = <<>>
    /\ UNCHANGED <<csStatus, csUpdates, csIncInterval, csLastLog>>
    /\ UNCHANGED notCorr

\* The component unmounts: the cleanups of both effects.
CsUnmount ==
    /\ csStatus = "mounted"
    /\ csPending = {}
    /\ csStatus' = "gone"
    /\ csLogIntervals' = {i \in csLogIntervals : i.id # csLogIntervalId}
    /\ csIncInterval' = FALSE
    /\ csQueue' = <<>>
    /\ UNCHANGED <<csCount, csUpdates, csPending, csDeps, csLogIntervalId,
                   csCreated, csLastLog>>
    /\ UNCHANGED notCorr

CorrNext ==
    \/ CsMount
    \/ CsRunEffects
    \/ CsClick
    \/ CsIncTick
    \/ \E i \in csLogIntervals : CsLogTick(i)
    \/ CsRender
    \/ CsUnmount

(***************************************************************************)
(* The resize components: NoCleanupComponent as it is in the source file   *)
(* (it returns a cleanup, like ProperCleanupComponent of the write-up) and *)
(* the NoCleanupComponent of the write-up, whose effect returns nothing.   *)
(*                                                                         *)
(* The component is used in several places of the page (Instances), each   *)
(* of which mounts and unmounts it.  Every effect run creates its own      *)
(* handleResize, numbered by rsCreated.                                    *)
(*   rsStatus    "unmounted", "rendered" (committed, effect not run yet)   *)
(*               or "mounted" (the effect has run)                         *)
(*   rsGen       the number of the handleResize of the place's effect run  *)
(*   listeners   the handlers registered on window for "resize"            *)
(*   staleCalls  the setWidth calls made on a component that has unmounted *)
(***************************************************************************)
MaxMounts == 3
MaxResizes == 2

Instances == {1, 2}

\* The values window.innerWidth takes.
Widths == {800, 1024}
\* window.innerWidth when the page loads.
InitialWidth == CHOOSE w \in Widths : \A v \in Widths : w <= v

\* A cleanup that removes nothing.
CleanupRemovesNothing(g) == {}
\* return () => { window.removeEventListener("resize", handleResize); }
ProperCleanupRemoves(g) == {g}

\* A cleanup that removes the listener.
CleanupRemovesListener(g) == {g}
\* The effect of the write-up's NoCleanupComponent returns no cleanup.
NoCleanupRemoves(g) == {}

\* The first render of the component in place c:
\* useState(window.innerWidth), the effect scheduled.
RsMount(c) ==
    /\ rsStatus[c] = "unmounted"
    /\ rsMounts < MaxMounts
    /\ rsMounts' = rsMounts + 1
    /\ rsStatus' = [rsStatus EXCEPT ![c] = "rendered"]
    /\ rsWidth' = [rsWidth EXCEPT ![c] = innerWidth]
    /\ rsQueue' = [rsQueue EXCEPT ![c] = <<>>]
    /\ UNCHANGED <<rsGen, innerWidth, listeners, rsCreated, resizes, staleCalls>>
    /\ UNCHANGED notResize

\* The effect: window.addEventListener("resize", handleResize)
RsRunEffect(c) ==
    /\ rsStatus[c] = "rendered"
    /\ rsCreated' = rsCreated + 1
    /\ rsGen' = [rsGen EXCEPT ![c] = rsCreated + 1]
    /\ listeners' = listeners \cup {rsCreated + 1}
    /\ rsStatus' = [rsStatus EXCEPT ![c] = "mounted"]
    /\ UNCHANGED <<rsWidth, rsQueue, innerWidth, rsMounts, resizes, staleCalls>>
    /\ UNCHANGED notResize

\* The window is resized to w: every registered handler calls
\* setWidth(window.innerWidth), which queues an update in the component
\* that created the handler if it is still there.
Resize(w) ==
    /\ w # innerWidth
    /\ resizes < MaxResizes
    /\ resizes' = resizes + 1
    /\ innerWidth' = w
    /\ rsQueue' = [c \in Instances |->
                     IF rsStatus[c] = "mounted" /\ rsGen[c] \in listeners
                     THEN Append(rsQueue[c], w) ELSE rsQueue[c]]
    /\ staleCalls' = staleCalls + Cardinality(
                       {g \in listeners :
                          ~\E c \in Instances :
                             rsStatus[c] = "mounted" /\ rsGen[c] = g})
    /\ UNCHANGED <<rsStatus, rsWidth, rsGen, listeners, rsCreated, rsMounts>>
    /\ UNCHANGED notResize

\* The component in place c renders with the queued width.
RsRender(c) ==
    /\ rsStatus[c] = "mounted"
    /\ rsQueue[c] # <<>>
    /\ rsWidth' = [rsWidth EXCEPT ![c] = ReduceValues(rsWidth[c], rsQueue[c])]
    /\ rsQueue' = [rsQueue EXCEPT ![c] = <<>>]
    /\ UNCHANGED <<rsStatus, rsGen, innerWidth, listeners, rsCreated, rsMounts,
                   resizes, staleCalls>>
    /\ UNCHANGED notResize

\* The component in place c unmounts: React runs the cleanup its effect
\* returned.
ProperUnmount(c) ==
    /\ rsStatus[c] = "mounted"
    /\ rsStatus' = [rsStatus EXCEPT ![c] = "unmounted"]
    /\ listeners' = listeners \ ProperCleanupRemoves(rsGen[c])
    /\ rsQueue' = [rsQueue EXCEPT ![c] = <<>>]
    /\ UNCHANGED <<rsWidth, rsGen, innerWidth, rsCreated, rsMounts, resizes,
                   staleCalls>>
    /\ UNCHANGED notResize

\* The write-up's NoCleanupComponent unmounts: there is no cleanup to run.
NoCleanupUnmount(c) ==
    /\ rsStatus[c] = "mounted"
    /\ rsStatus' = [rsStatus EXCEPT ![c] = "unmounted"]
    /\ listeners' = listeners \ NoCleanupRemoves(rsGen[c])
    /\ rsQueue' = [rsQueue EXCEPT ![c] = <<>>]
    /\ UNCHANGED <<rsWidth, rsGen, innerWidth, rsCreated, rsMounts, resizes,
                   staleCalls>>
    /\ UNCHANGED notResize

ProperCleanupNext ==
    \/ \E c \in Instances : RsMount(c)
    \/ \E c \in Instances : RsRunEffect(c)
    \/ \E w \in Widths : Resize(w)
    \/ \E c \in Instances : RsRender(c)
    \/ \E c \in Instances : ProperUnmount(c)

NoCleanupNext ==
    \/ \E c \in Instances : RsMount(c)
    \/ \E c \in Instances : RsRunEffect(c)
    \/ \E w \in Widths : Resize(w)
    \/ \E c \in Instances : RsRender(c)
    \/ \E c \in Instances : NoCleanupUnmount(c)

\* The places where the component is mounted and its effect has run.
MountedInstances == {c \in Instances : rsStatus[c] = "mounted"}

(***************************************************************************)
(* StrictModeComponent                                                     *)
(*                                                                         *)
(*   strictMode  the tree is inside <StrictMode> in a development build;   *)
(*               fixed when the page first mounts the component            *)
(*   smLog       the lines the effect and its cleanup have logged          *)
(* In Strict Mode React runs the effects of a newly mounted component,     *)
(* their cleanups and the effects again, in one go.                        *)
(***************************************************************************)
MaxSmMounts == 4
MaxSmRenders == 4

\* An effect that returns no cleanup logs nothing when it is cleaned up.
NoCleanupLog == <<>>
\* return () => { console.log("Effect cleaned up!"); }
EffectCleanupLog == <<"Effect cleaned up!">>

\* console.log("Effect mounted!")
EffectSetupLog == <<"Effect mounted!">>

\* The first render; the effect is scheduled.
SmMount(strict) ==
    /\ smStatus = "unmounted"
    /\ smMounts < MaxSmMounts
    /\ smMounts > 0 => strict = strictMode
    /\ strictMode' = strict
    /\ smMounts' = smMounts + 1
    /\ smStatus' = "rendered"
    /\ UNCHANGED <<smLog, smRenders>>
    /\ UNCHANGED notStrict

\* The effect of lines 95-100 runs after the first commit, and in Strict
\* Mode its cleanup and the effect once more.
SmRunEffect ==
    /\ smStatus = "rendered"
    /\ smStatus' = "mounted"
    /\ smLog' = smLog \o EffectSetupLog
                  \o (IF strictMode THEN EffectCleanupLog \o EffectSetupLog
                      ELSE <<>>)
    /\ UNCHANGED <<strictMode, smMounts, smRenders>>
    /\ UNCHANGED notStrict

\* The parent renders the component again: with [] the effect does not run.
SmRerender ==
    /\ smStatus = "mounted"
    /\ smRenders < MaxSmRenders
    /\ smRenders' = smRenders + 1
    /\ UNCHANGED <<smStatus, strictMode, smLog, smMounts>>
    /\ UNCHANGED notStrict

\* The component unmounts: the cleanup runs.
SmUnmount ==
    /\ smStatus = "mounted"
    /\ smStatus' = "unmounted"
    /\ smLog' = smLog \o EffectCleanupLog
    /\ UNCHANGED <<strictMode, smMounts, smRenders>>
    /\ UNCHANGED notStrict

StrictNext ==
    \/ \E strict \in BOOLEAN : SmMount(strict)
    \/ SmRunEffect
    \/ SmRerender
    \/ SmUnmount

\* How many times a line is in the log.
Logged(line) == Cardinality({k \in 1..Len(smLog) : <<smLog[k]>> = line})

(***************************************************************************)
(* App, ChildComponentWithoutMemo and MemoizedChildComponent of the README *)
(*                                                                         *)
(* Both buttons queue the updater (prev) => prev + 1, so a queue is the    *)
(* number of updaters waiting for the next render.  A text is the sequence *)
(* of the parts of its string: two texts are the same string exactly when  *)
(* they are the same sequence.                                             *)
(***************************************************************************)
MaxAppClicks == 4

\* memo() that never finds the props equal.
TextNeverEqual(prev, next) == FALSE
\* React.memo(MemoizedChildComponent): the shallow comparison of the props,
\* whose only field is text.
TextShallowEqual(prev, next) == prev.text = next.text

\* text="Hello Memo!"
ConstText == <<"Hello Memo!">>
\* text={`Dynamic Memo Text: ${parentCount}`}
DynamicText(count) == <<"Dynamic Memo Text: ", count>>

\* The first render of App renders the three children.
AppMount ==
    /\ ~appMounted
    /\ appMounted' = TRUE
    /\ parentCount' = 0
    /\ otherState' = 0
    /\ appRenders' = 1
    /\ nonMemoRenders' = 1
    /\ constMemoRenders' = 1
    /\ dynMemoRenders' = 1
    /\ constMemoProps' = [text |-> ConstText]
    /\ dynMemoProps' = [text |-> DynamicText(0)]
    /\ UNCHANGED <<parentCountQueue, otherStateQueue, appClicks>>
    /\ UNCHANGED notApp

\* onClick={() => setParentCount((prev) => prev + 1)}
ClickParentCount ==
    /\ appMounted
    /\ appClicks < MaxAppClicks
    /\ appClicks' = appClicks + 1
    /\ parentCountQueue' = parentCountQueue + 1
    /\ UNCHANGED <<appMounted, parentCount, otherState, otherStateQueue,
                   appRenders, nonMemoRenders, constMemoRenders,
                   dynMemoRenders, constMemoProps, dynMemoProps>>
    /\ UNCHANGED notApp

\* onClick={() => setOtherState((prev) => prev + 1)}
ClickOtherState ==
    /\ appMounted
    /\ appClicks < MaxAppClicks
    /\ appClicks' = appClicks + 1
    /\ otherStateQueue' = otherStateQueue + 1
    /\ UNCHANGED <<appMounted, parentCount, otherState, parentCountQueue,
                   appRenders, nonMemoRenders, constMemoRenders,
                   dynMemoRenders, constMemoProps, dynMemoProps>>
    /\ UNCHANGED notApp

\* App renders with every queued updater applied.  The child without memo
\* renders with it; a memoized child renders unless its props are shallowly
\* equal to those of its last render.
AppRender ==
    /\ appMounted
    /\ parentCountQueue + otherStateQueue > 0
    /\ LET newCount == parentCount + parentCountQueue
           newConst == [text |-> ConstText]
           newDyn == [text |-> DynamicText(newCount)]
       IN /\ parentCount' = newCount
          /\ otherState' = otherState + otherStateQueue
          /\ appRenders' = appRenders + 1
          /\ nonMemoRenders' = nonMemoRenders + 1
          /\ IF TextShallowEqual(constMemoProps, newConst)
             THEN UNCHANGED <<constMemoRenders, constMemoProps>>
             ELSE /\ constMemoRenders' = constMemoRenders + 1
                  /\ constMemoProps' = newConst
          /\ IF TextShallowEqual(dynMemoProps, newDyn)
             THEN UNCHANGED <<dynMemoRenders, dynMemoProps>>
             ELSE /\ dynMemoRenders' = dynMemoRenders + 1
                  /\ dynMemoProps' = newDyn
    /\ parentCountQueue' = 0
    /\ otherStateQueue' = 0
    /\ UNCHANGED <<appMounted, appClicks>>
    /\ UNCHANGED notApp

AppNext == AppMount \/ ClickParentCount \/ ClickOtherState \/ AppRender

(***************************************************************************)
(* ParentComponent and MyButton of the README                              *)
(*                                                                         *)
(* A function is the record of its name, the render that created it and    *)
(* the count of that render, which its body reads: two functions are the   *)
(* same reference exactly when they are the same record.  ParentComponent  *)
(* takes no props, so besides its own state changes it renders whenever    *)
(* the component that uses it renders.                                     *)
(***************************************************************************)
MaxPcClicks == 4
MaxPcRerenders == 3

\* memo() that finds the props equal when the functions have the same body.
SameBodyEqual(prev, next) == prev.onClick.name = next.onClick.name
\* memo(MyButton): the shallow comparison of the props, whose only field
\* onClick is a function, compared by reference.
OnClickShallowEqual(prev, next) == prev.onClick = next.onClick

\* useMemo with dependencies that always count as changed.
DepsAlwaysChanged(prevDeps, nextDeps) == TRUE
\* useMemo(..., [count]): the factory runs again when a dependency differs.
DepsChanged(prevDeps, nextDeps) == prevDeps # nextDeps

\* const handleClickProblem = () => { setCount(count + 1); };
handleClickProblem(render, count) ==
    [name |-> "handleClickProblem", render |-> render, count |-> count]

\* The function the useMemo factory returns: () => setCount(count + 1)
handleClickSolution(render, count) ==
    [name |-> "handleClickSolution", render |-> render, count |-> count]

\* The first render of ParentComponent renders both buttons.
PcMount ==
    /\ ~pcMounted
    /\ pcMounted' = TRUE
    /\ pcCount' = 0
    /\ pcRenders' = 1
    /\ memoDeps' = <<0>>
    /\ memoValue' = handleClickSolution(1, 0)
    /\ problemProps' = [onClick |-> handleClickProblem(1, 0)]
    /\ solutionProps' = [onClick |-> handleClickSolution(1, 0)]
    /\ problemRenders' = 1
    /\ solutionRenders' = 1
    /\ UNCHANGED <<pcQueue, pcClicks, pcRerenders>>
    /\ UNCHANGED notPc

\* A click on one of the buttons calls the onClick its MyButton last
\* rendered with: setCount(count + 1) with the count of that function.
PcClick(props) ==
    /\ pcMounted
    /\ pcClicks < MaxPcClicks
    /\ pcClicks' = pcClicks + 1
    /\ pcQueue' = Append(pcQueue, props.onClick.count + 1)
    /\ UNCHANGED <<pcMounted, pcCount, pcRerenders, pcRenders, memoDeps,
                   memoValue, problemProps, solutionProps, problemRenders,
                   solutionRenders>>
    /\ UNCHANGED notPc

\* The body of ParentComponent runs with the reduced count: it makes a new
\* handleClickProblem, useMemo gives the function of the last run of its
\* factory unless [count] differs, and each MyButton renders unless its
\* props are shallowly equal to those of its last render.
RenderParentComponent ==
    LET newCount == ReduceValues(pcCount, pcQueue)
        render == pcRenders + 1
        problem == handleClickProblem(render, newCount)
        solution == IF DepsChanged(memoDeps, <<newCount>>)
                    THEN handleClickSolution(render, newCount)
                    ELSE memoValue
        newProblemProps == [onClick |-> problem]
        newSolutionProps == [onClick |-> solution]
    IN /\ pcCount' = newCount
       /\ pcQueue' = <<>>
       /\ pcRenders' = render
       /\ memoDeps' = IF DepsChanged(memoDeps, <<newCount>>)
                      THEN <<newCount>> ELSE memoDeps
       /\ memoValue' = solution
       /\ IF OnClickShallowEqual(problemProps, newProblemProps)
          THEN UNCHANGED <<problemProps, problemRenders>>
          ELSE /\ problemProps' = newProblemProps
               /\ problemRenders' = problemRenders + 1
       /\ IF OnClickShallowEqual(solutionProps, newSolutionProps)
          THEN UNCHANGED <<solutionProps, solutionRenders>>
          ELSE /\ solutionProps' = newSolutionProps
               /\ solutionRenders' = solutionRenders + 1

\* A render caused by setCount.  With the count unchanged React bails out
\* and renders no child.
PcRender ==
    /\ pcMounted
    /\ pcQueue # <<>>
    /\ IF ReduceValues(pcCount, pcQueue) = pcCount
       THEN /\ pcQueue' = <<>>
            /\ UNCHANGED <<pcCount, pcRenders, memoDeps, memoValue,
                           problemProps, solutionProps, problemRenders,
                           solutionRenders>>
       ELSE RenderParentComponent
    /\ UNCHANGED <<pcMounted, pcClicks, pcRerenders>>
    /\ UNCHANGED notPc

\* The component that uses <ParentComponent /> renders: ParentComponent
\* renders with it, whatever its state.
PcParentRerender ==
    /\ pcMounted
    /\ pcRerenders < MaxPcRerenders
    /\ pcRerenders' = pcRerenders + 1
    /\ RenderParentComponent
    /\ UNCHANGED <<pcMounted, pcClicks>>
    /\ UNCHANGED notPc

PcNext ==
    \/ PcMount
    \/ PcClick(problemProps)
    \/ PcClick(solutionProps)
    \/ PcRender
    \/ PcParentRerender

(***************************************************************************)
(* The consumers with no ThemeProvider above them                          *)
(*                                                                         *)
(* useContext(ThemeContext) gives the value createContext was called with. *)
(* A field the value does not have is undefined: <<>> here, and <<v>> for  *)
(* a field whose value is v.  The consumers hold no state, so they render  *)
(* again only when the component that uses them does.                      *)
(*                                                                         *)
(*   npTheme     the theme each sibling read in its last render            *)
(*   npOnClick   the onClick of the <button> ThemeButton last rendered     *)
(*   npCalled    the functions that clicks have called                     *)
(***************************************************************************)
MaxNpClicks == 4
MaxNpRerenders == 3

\* createContext({ theme: "light" }): the value read where there is no
\* provider.
DefaultValue == [theme |-> DefaultTheme]

\* const { field } = value
Destructure(context, field) ==
    IF field \in DOMAIN context THEN <<context[field]>> ELSE <<>>

\* The theme a sibling renders with: undefined is not "dark".
ThemeOf(read) == IF read = <<>> THEN None ELSE read[1]

\* The first render: every sibling and the button read the default value.
NpMount ==
    /\ ~npMounted
    /\ npMounted' = TRUE
    /\ npTheme' = [c \in Siblings |->
                     ThemeOf(Destructure(DefaultValue, "theme"))]
    /\ npWipClass' = [c \in Siblings |->
          SiblingClassName(ThemeOf(Destructure(DefaultValue, "theme")))]
    /\ npClassName' = [c \in Siblings |->
          SiblingClassName(ThemeOf(Destructure(DefaultValue, "theme")))]
    /\ npOnClick' = Destructure(DefaultValue, "toggleTheme")
    /\ UNCHANGED <<npPhase, npDirty, npCalled, npClicks, npRerenders>>
    /\ UNCHANGED notNp

\* <button onClick={toggleTheme}>: with onClick undefined a click calls
\* nothing.
NpClick ==
    /\ npMounted
    /\ npClicks < MaxNpClicks
    /\ npClicks' = npClicks + 1
    /\ npCalled' = npCalled \o npOnClick
    /\ UNCHANGED <<npMounted, npPhase, npDirty, npTheme, npWipClass,
                   npClassName, npOnClick, npRerenders>>
    /\ UNCHANGED notNp

\* The component that uses the consumers renders again: so do they.
NpRerender ==
    /\ npMounted
    /\ npPhase = "idle"
    /\ npRerenders < MaxNpRerenders
    /\ npRerenders' = npRerenders + 1
    /\ npPhase' = "rendering"
    /\ npDirty' = Siblings
    /\ npOnClick' = Destructure(DefaultValue, "toggleTheme")
    /\ UNCHANGED <<npMounted, npTheme, npWipClass, npClassName, npCalled,
                   npClicks>>
    /\ UNCHANGED notNp

\* SiblingComponentA/B/C renders with the theme of the default value.
NpRenderSibling(c) ==
    /\ npPhase = "rendering"
    /\ c \in npDirty
    /\ LET read == ThemeOf(Destructure(DefaultValue, "theme"))
       IN /\ npTheme' = [npTheme EXCEPT ![c] = read]
          /\ npWipClass' = [npWipClass EXCEPT ![c] = SiblingClassName(read)]
    /\ npDirty' = npDirty \ {c}
    /\ UNCHANGED <<npMounted, npPhase, npClassName, npOnClick, npCalled,
                   npClicks, npRerenders>>
    /\ UNCHANGED notNp

\* The commit writes the siblings' output to the DOM.
NpCommit ==
    /\ npPhase = "rendering"
    /\ npDirty = {}
    /\ npClassName' = npWipClass
    /\ npPhase' = "idle"
    /\ UNCHANGED <<npMounted, npDirty, npTheme, npWipClass, npOnClick,
                   npCalled, npClicks, npRerenders>>
    /\ UNCHANGED notNp

NoProviderNext ==
    \/ NpMount
    \/ NpClick
    \/ NpRerender
    \/ \E c \in Siblings : NpRenderSibling(c)
    \/ NpCommit

(***************************************************************************)
(* Specifications                                                          *)
(***************************************************************************)
Init ==
    /\ loopMounted = FALSE
    /\ loopCount = LoopInitialCount
    /\ loopQueue = <<>>
    /\ loopDeps = <<>>
    /\ loopEffectPending = FALSE
    /\ loopEffectRuns = 0
    /\ loopLogged = <<>>
    /\ memoMounted = FALSE
    /\ memoCount = 0
    /\ memoName = "Sumit"
    /\ memoCountQueue = <<>>
    /\ memoNameQueue = <<>>
    /\ memoClicks = 0
    /\ parentRenders = 0
    /\ childRenders = 0
    /\ childProps = [name |-> None]
    /\ themeMounted = FALSE
    /\ theme = DefaultTheme
    /\ themeQueue = <<>>
    /\ themeClicks = 0
    /\ themePhase = "idle"
    /\ wipTheme = DefaultTheme
    /\ dirty = {}
    /\ wipClass = [c \in Siblings |-> None]
    /\ className = [c \in Siblings |-> None]
    /\ formMounted = FALSE
    /\ value = <<>>
    /\ ctrlInput = <<>>
    /\ ctrlAlert = <<>>
    /\ inputRef = <<>>
    /\ unctrlAlert = <<>>
    /\ fetchMounted = FALSE
    /\ userId = 1
    /\ user = <<>>
    /\ loading = TRUE
    /\ stateQueue = <<>>
    /\ effectPending = FALSE
    /\ fetches = <<>>
    /\ microtasks = <<>>
    /\ completed = <<>>
    /\ changes = 0
    /\ staleStatus = "unmounted"
    /\ staleCount = 0
    /\ staleQueue = <<>>
    /\ staleClicks = 0
    /\ staleEffectPending = FALSE
    /\ staleDeps = <<>>
    /\ intervals = {}
    /\ intervalId = 0
    /\ intervalsCreated = 0
    /\ staleLogged = {}
    /\ ticks = 0
    /\ csStatus = "unmounted"
    /\ csCount = 0
    /\ csQueue = <<>>
    /\ csUpdates = 0
    /\ csPending = {}
    /\ csDeps = <<>>
    /\ csLogIntervals = {}
    /\ csLogIntervalId = 0
    /\ csIncInterval = FALSE
    /\ csCreated = 0
    /\ csLastLog = <<>>
    /\ rsStatus = [c \in Instances |-> "unmounted"]
    /\ rsWidth = [c \in Instances |-> InitialWidth]
    /\ rsQueue = [c \in Instances |-> <<>>]
    /\ rsGen = [c \in Instances |-> 0]
    /\ innerWidth = InitialWidth
    /\ listeners = {}
    /\ rsCreated = 0
    /\ rsMounts = 0
    /\ resizes = 0
    /\ staleCalls = 0
    /\ smStatus = "unmounted"
    /\ strictMode = FALSE
    /\ smLog = <<>>
    /\ smMounts = 0
    /\ smRenders = 0
    /\ appMounted = FALSE
    /\ parentCount = 0
    /\ otherState = 0
    /\ parentCountQueue = 0
    /\ otherStateQueue = 0
    /\ appClicks = 0
    /\ appRenders = 0
    /\ nonMemoRenders = 0
    /\ constMemoRenders = 0
    /\ dynMemoRenders = 0
    /\ constMemoProps = [text |-> <<>>]
    /\ dynMemoProps = [text |-> <<>>]
    /\ pcMounted = FALSE
    /\ pcCount = 0
    /\ pcQueue = <<>>
    /\ pcClicks = 0
    /\ pcRerenders = 0
    /\ pcRenders = 0
    /\ memoDeps = <<>>
    /\ memoValue = [name |-> None, render |-> 0, count |-> 0]
    /\ problemProps = [onClick |-> [name |-> None, render |-> 0, count |-> 0]]
    /\ solutionProps = [onClick |-> [name |-> None, render |-> 0, count |-> 0]]
    /\ problemRenders = 0
    /\ solutionRenders = 0
    /\ npMounted = FALSE
    /\ npPhase = "idle"
    /\ npDirty = {}
    /\ npTheme = [c \in Siblings |-> None]
    /\ npWipClass = [c \in Siblings |-> None]
    /\ npClassName = [c \in Siblings |-> None]
    /\ npOnClick = <<>>
    /\ npCalled = <<>>
    /\ npClicks = 0
    /\ npRerenders = 0

\* React's scheduler runs every scheduled render and effect.
SpecLoop == Init /\ [][LoopNext]_vars /\ WF_vars(LoopNext)

SpecMemo == Init /\ [][MemoNext]_vars

SpecTheme == Init /\ [][ThemeNext]_vars

SpecForm == Init /\ [][FormNext]_vars

SpecRace == Init /\ [][RaceNext]_vars

SpecFixed == Init /\ [][FixedNext]_vars

SpecStale == Init /\ [][StaleNext]_vars

SpecCorr == Init /\ [][CorrNext]_vars

SpecProperCleanup == Init /\ [][ProperCleanupNext]_vars

SpecNoCleanup == Init /\ [][NoCleanupNext]_vars

SpecStrict == Init /\ [][StrictNext]_vars

SpecApp == Init /\ [][AppNext]_vars

SpecPc == Init /\ [][PcNext]_vars

SpecNoProvider == Init /\ [][NoProviderNext]_vars

(***************************************************************************)
(* Claims                                                                  *)
(***************************************************************************)

\* C1: the render/effect cycle of infiniteLoop never settles: every effect
\* run writes a count that differs from the one it read, a step is enabled
\* in every state below the bound of the model, and every count up to the
\* bound is eventually exceeded, with one effect run per count.
C1_NeverQuiescent ==
    /\ \A n \in 0..(MaxLoopCount - 1) : <>(loopCount > n)
    /\ <>(loopEffectRuns = MaxLoopCount)
    /\ [](loopCount < MaxLoopCount => ENABLED LoopNext)
    /\ [][loopEffectRuns' # loopEffectRuns
            => ReduceValues(loopCount', loopQueue') # loopCount]_vars

C1_Witness ==
    /\ loopCount = MaxLoopCount
    /\ loopEffectRuns = MaxLoopCount
    /\ loopLogged = <<MaxLoopCount - 1>>

\* C2: a step that leaves the name given to MemoizedChild unchanged, as
\* every render caused by count clicks alone does, never runs the child's
\* body.
C2_CountClickSkipsChild ==
    [][memoMounted /\ memoName' = memoName
         => childRenders' = childRenders]_vars

C2_Witness ==
    /\ memoCount > 0
    /\ memoCountQueue = <<>>
    /\ parentRenders > 1
    /\ childRenders = 1

\* C3: the render after a 'Change Name' click sets name to "Satyam", and
\* the child's body has run once at mount and exactly once more when name
\* has become "Satyam", with that name as its prop.
C3_NameChangeRendersChildOnce ==
    /\ [](memoMounted =>
            /\ childProps.name = memoName
            /\ childRenders = IF memoName = "Satyam" THEN 2 ELSE 1)
    /\ [][memoNameQueue # <<>> /\ memoNameQueue' = <<>>
            => memoName' = "Satyam"]_vars

C3_Witness ==
    /\ memoName = "Satyam"
    /\ childProps.name = "Satyam"
    /\ childRenders = 2
    /\ memoCount > 0

\* C4: once rendering has settled, SiblingComponentA, B and C all show the
\* class name of the provider's current theme.
C4_ConsumersShowTheme ==
    ThemeSettled => \A c \in Siblings : className[c] = theme

C4_Witness ==
    /\ ThemeSettled
    /\ themeClicks >= 3
    /\ theme = "dark"
    /\ \A c \in Siblings : className[c] = "dark"

\* C5: theme is "light" or "dark"; with the queued toggles applied it is
\* "dark" exactly when the number of toggleTheme calls is odd, so it is once
\* rendering has settled, also when several toggles were queued before one
\* render; a toggle applied twice gives the theme back.
C5_ThemeIsParityOfClicks ==
    /\ theme \in {"light", "dark"}
    /\ ToggleUpdater(ToggleUpdater(theme)) = theme
    /\ ReduceUpdates(IF themePhase = "rendering" THEN wipTheme ELSE theme,
                     themeQueue)
         = (IF themeClicks % 2 = 1 THEN "dark" ELSE "light")
    /\ ThemeSettled => (theme = "dark" <=> themeClicks % 2 = 1)

C5_Witness ==
    /\ ThemeSettled
    /\ themeClicks = 3
    /\ theme = "dark"

\* C6: after the same keystrokes the two inputs hold the same text, and a
\* submit makes both components alert the same message: "A name was
\* submitted" followed by the text the input holds at the submit.
C6_SameAlert ==
    /\ [](ctrlInput = inputRef /\ ctrlAlert = unctrlAlert)
    /\ [][ctrlAlert' # ctrlAlert \/ unctrlAlert' # unctrlAlert
            => /\ ctrlAlert' = <<Message(ctrlInput)>>
               /\ unctrlAlert' = <<Message(inputRef)>>]_vars

C6_Witness ==
    /\ ctrlAlert = <<Message(<<"a", "b">>)>>
    /\ unctrlAlert = <<Message(<<"a", "b">>)>>
    /\ ctrlInput = <<"b">>

\* C7: in RaceConditionComponent the response that arrives last wins,
\* whatever the current userId is: once everything has settled after a
\* last fetch that resolved, loading is false and user holds the data of
\* that fetch.  So when userId went from 1 to 2 with the fetch for 1
\* pending and the fetch for 1 resolved after the fetch for 2, user holds
\* the data of user 1 while userId is 2.
C7_LastResponseWins ==
    /\ (FetchSettled /\ completed # <<>>
          /\ fetches[completed[Len(completed)]].status = "resolved")
         => /\ loading = FALSE
            /\ user = <<fetches[completed[Len(completed)]].id>>
    /\ (FetchSettled /\ userId = 2 /\ Len(fetches) = 2 /\ fetches[1].id = 1
          /\ completed = <<2, 1>> /\ fetches[1].status = "resolved"
          /\ fetches[2].status = "resolved")
         => loading = FALSE /\ user = <<1>>

C7_Witness ==
    /\ FetchSettled
    /\ userId = 2
    /\ Len(fetches) = 2
    /\ fetches[1].id = 1
    /\ fetches[2].id = 2
    /\ completed = <<2, 1>>
    /\ fetches[1].status = "resolved"
    /\ fetches[2].status = "resolved"
    /\ user = <<1>>
    /\ loading = FALSE

\* C8, as claimed: whenever user is not null it holds the data fetched for
\* the current userId.
C8_UserAlwaysCurrent ==
    user # <<>> => user = <<userId>>

\* C8, amended: once the effect that follows a change of userId has run,
\* the user state with the queued updates applied is null or the data
\* fetched for the current userId, and so is the rendered user once these
\* updates are rendered; no fetch that was aborted ever calls setUser.
C8_NoStaleUpdate ==
    /\ (fetchMounted /\ ~effectPending) => LatestUser \in {<<>>, <<userId>>}
    /\ (fetchMounted /\ ~effectPending /\ stateQueue = <<>> /\ user # <<>>)
         => user = <<userId>>
    /\ \A r \in 1..Len(fetches) :
         fetches[r].status \in {"aborting", "aborted"} => ~fetches[r].calledSetUser

C8_Witness ==
    /\ FetchSettled
    /\ userId = 2
    /\ user = <<2>>
    /\ Len(fetches) = 2
    /\ fetches[1].id = 1
    /\ fetches[1].status = "aborted"
    /\ fetches[2].status = "resolved"

\* C9: a fetch rejected with AbortError is logged as aborted and never as
\* a fetch error, any other rejection is logged as a fetch error, neither
\* calls setUser, and the step that handles either finds the user state
\* null, leaves it null and sets loading to false.
C9_AbortIsNotAnError ==
    /\ [](\A r \in 1..Len(fetches) :
            /\ fetches[r].status = "aborted"
                 => fetches[r].logged = "aborted" /\ ~fetches[r].calledSetUser
            /\ fetches[r].status = "rejected"
                 => fetches[r].logged = "error" /\ ~fetches[r].calledSetUser
            /\ fetches[r].logged # "none"
                 => fetches[r].status \in {"aborted", "rejected"})
    /\ [][\A r \in 1..Len(fetches) :
            (fetches'[r].status \in {"aborted", "rejected"}
               /\ fetches'[r].status # fetches[r].status)
              => /\ LatestUser = <<>>
                 /\ ReduceVar("user", user', stateQueue') = <<>>
                 /\ ReduceVar("loading", loading', stateQueue') = FALSE]_vars

C9_Witness ==
    /\ Len(fetches) = 3
    /\ fetches[1].status = "aborted"
    /\ fetches[1].logged = "aborted"
    /\ fetches[2].status = "rejected"
    /\ fetches[2].logged = "error"
    /\ user = <<>>
    /\ loading = FALSE
    /\ stateQueue = <<>>

\* C10: whatever the clicks, every value the interval of
\* staleClosureComponent logs is 0, the count of the first render; one
\* interval is set from the effect's run at mount until the unmount, none
\* after it, and the effect creates no second one.
C10_IntervalLogsInitialCount ==
    /\ staleLogged \subseteq {0}
    /\ intervalsCreated <= 1
    /\ (staleStatus = "mounted" /\ ~staleEffectPending)
         => Cardinality(intervals) = 1
    /\ staleStatus = "gone" => intervals = {}

C10_Witness ==
    /\ staleStatus = "gone"
    /\ staleCount = MaxStaleClicks
    /\ staleLogged = {0}
    /\ ticks = MaxTicks
    /\ intervalsCreated = 1

\* C11, as claimed: at every moment at most one logging interval of
\* CorrectedStaleClosure is set, it is the one created for the latest
\* committed count, and every value it logs equals the count committed at
\* that moment.
C11_IntervalLogsCurrentCount ==
    /\ Cardinality(csLogIntervals) <= 1
    /\ \A i \in csLogIntervals : i.count = csCount
    /\ csLastLog # <<>> => csLastLog[1] = csLastLog[2]

\* C12: with the cleanup, a component that is mounted (its effect has
\* run) has exactly one resize listener registered, one that is not has
\* none, so the listeners are as many as the mounted instances after any
\* mount/unmount cycles, and no handler ever calls setWidth on a component
\* that has unmounted.
C12_CleanupReleasesListener ==
    /\ listeners = {rsGen[c] : c \in MountedInstances}
    /\ Cardinality(listeners) = Cardinality(MountedInstances)
    /\ staleCalls = 0

C12_Witness ==
    /\ rsMounts = MaxMounts
    /\ rsCreated = MaxMounts
    /\ resizes > 0
    /\ Cardinality(MountedInstances) = 1
    /\ Cardinality(listeners) = 1

\* C13: without a cleanup, every listener the component has registered
\* stays registered: the listeners are as many as the effect runs, so k
\* after k mount/unmount cycles, and a resize calls setWidth once for each
\* listener whose component has unmounted.
C13_ListenerLeaks ==
    /\ [](listeners = 1..rsCreated)
    /\ []((MountedInstances = {} /\ \A c \in Instances : rsStatus[c] = "unmounted")
            => Cardinality(listeners) = rsMounts)
    /\ [][resizes' # resizes
            => staleCalls' = staleCalls
                 + Cardinality(listeners) - Cardinality(MountedInstances)]_vars

C13_Witness ==
    /\ rsMounts = MaxMounts
    /\ \A c \in Instances : rsStatus[c] = "unmounted"
    /\ Cardinality(listeners) = MaxMounts
    /\ staleCalls > 0

\* C14: under Strict Mode the log of StrictModeComponent starts with
\* "Effect mounted!", "Effect cleaned up!", "Effect mounted!" once the
\* effects of the first mount have run, setups and cleanups alternate in
\* the whole log, and there is exactly one more setup than cleanups while
\* the component is mounted (and as many when it is not).
C14_StrictModeDoubleInvocation ==
    strictMode =>
      /\ ((smMounts > 0 /\ smStatus # "rendered") \/ smMounts > 1)
           => /\ Len(smLog) >= 3
              /\ SubSeq(smLog, 1, 3) = EffectSetupLog \o EffectCleanupLog \o EffectSetupLog
      /\ \A k \in 1..Len(smLog) :
           <<smLog[k]>> = IF k % 2 = 1 THEN EffectSetupLog ELSE EffectCleanupLog
      /\ smStatus = "mounted"
           => Logged(EffectSetupLog) = Logged(EffectCleanupLog) + 1
      /\ smStatus # "mounted"
           => Logged(EffectSetupLog) = Logged(EffectCleanupLog)

C14_Witness ==
    /\ strictMode
    /\ smStatus = "mounted"
    /\ smMounts = 2
    /\ Len(smLog) = 7
    /\ Logged(EffectSetupLog) = 4
    /\ Logged(EffectCleanupLog) = 3

\* C15: in the README's App the memoized child with the constant text
\* "Hello Memo!" has rendered exactly once whatever was clicked, the
\* memoized child with the text built from parentCount renders in a step
\* exactly when parentCount changes in it, and the child without memo
\* renders on every render of App, those of 'Update Other State' included.
C15_MemoizedChildrenOfApp ==
    /\ [](appMounted =>
            /\ constMemoRenders = 1
            /\ nonMemoRenders = appRenders)
    /\ [][appMounted =>
            /\ dynMemoRenders' = dynMemoRenders
                  + (IF parentCount' # parentCount THEN 1 ELSE 0)
            /\ appRenders' # appRenders => nonMemoRenders' = nonMemoRenders + 1
            /\ otherState' # otherState => nonMemoRenders' = nonMemoRenders + 1]_vars

C15_Witness ==
    /\ parentCount = 2
    /\ otherState = 2
    /\ appRenders = 4
    /\ nonMemoRenders = 4
    /\ dynMemoRenders = 2
    /\ constMemoRenders = 1

\* C16: the MyButton given handleClickProblem renders in every render of
\* ParentComponent, and the MyButton given handleClickSolution renders in a
\* render of ParentComponent if and only if count differs from the count of
\* the render before; neither renders without ParentComponent rendering.
C16_MemoizedHandler ==
    /\ [](pcMounted => problemRenders = pcRenders)
    /\ [][pcMounted =>
            /\ problemRenders' = problemRenders
                  + (IF pcRenders' # pcRenders THEN 1 ELSE 0)
            /\ solutionRenders' = solutionRenders
                  + (IF pcRenders' # pcRenders /\ pcCount' # pcCount
                     THEN 1 ELSE 0)
            /\ pcCount' # pcCount => pcRenders' # pcRenders]_vars

C16_Witness ==
    /\ pcRerenders = 2
    /\ pcCount = 1
    /\ pcRenders = 4
    /\ problemRenders = 4
    /\ solutionRenders = 2

\* C17: with no ThemeProvider above them SiblingComponentA, B and C read
\* the theme "light" of the context's default value and show the class
\* "light"; ThemeButton finds no toggleTheme, so a click calls nothing and
\* changes nothing but the number of clicks, and the theme is "light" after
\* any clicks.
C17_DefaultValueWithoutProvider ==
    /\ [](npMounted =>
            /\ \A c \in Siblings :
                  /\ npTheme[c] = "light"
                  /\ npClassName[c] = "light"
            /\ npOnClick = <<>>
            /\ npCalled = <<>>)
    /\ [][npClicks' # npClicks =>
            UNCHANGED <<npMounted, npPhase, npDirty, npTheme, npWipClass,
                        npClassName, npOnClick, npCalled, themeVars>>]_vars

C17_Witness ==
    /\ npMounted
    /\ npClicks = 3
    /\ npRerenders = 1
    /\ npPhase = "idle"
    /\ \A c \in Siblings : npClassName[c] = "light" /\ npTheme[c] = "light"

=============================================================================
